---- MODULE Spec2Model ----
(***************************************************************************)
(* Model of spt (src/src/main.rs): main drives test_and_render over the    *)
(* targets one at a time; each probe races the request against a 10 s      *)
(* timer, checks the status, then runs a download task (producer) and a    *)
(* render task (consumer) joined by a tokio mpsc channel of capacity 1.    *)
(*                                                                         *)
(* Option<T> is modelled as a sequence: << >> is None, <<v>> is Some(v).   *)
(* Time is modelled by two stopwatches in milliseconds, req_start.elapsed  *)
(* and pb.elapsed, that advance over a fixed set of instants.              *)
(***************************************************************************)
EXTENDS Integers, Sequences, FiniteSets, TLC

VARIABLES
  targets,      \* main: builders, the request methods to probe, in order
  idx,          \* main: index of the builder the for loop is at
  results,      \* main: Vec<TestData>
  table,        \* main: rows of the printed table, top first
  pc,           \* main / test_and_render: position
  request,      \* client.request future: idle, pending, resolved, failed, abandoned
  timer,        \* the 10 s timer of tokio::time::timeout: idle, armed, fired, dropped
  reqElapsed,   \* req_start.elapsed() in ms
  resp,         \* the response: status and Content-Length header
  total,        \* Option<u64> parsed from Content-Length
  bodyRead,     \* chunk sizes body.next() has yielded so far
  queue,        \* the mpsc channel's buffer
  txOpen,       \* tx not yet dropped
  rxOpen,       \* rx not yet dropped
  pushed,       \* number of tx.send that completed
  dl_pc,        \* download task: idle, next, send, done, panicked_body,
                \* panicked_send
  held,         \* download task: body.len() of the chunk being sent
  rd_pc,        \* render task: idle, spawned, recv, check, eos, ok, bailed
  len,          \* render task: the len rx.recv returned
  recvSeq,      \* chunk sizes rx.recv has returned so far
  pbLen,        \* progress bar: length (Option)
  position,     \* progress bar: position
  pbElapsed,    \* pb.elapsed() in ms
  renderResult, \* the render task's return value
  outcome       \* what test_and_render returned

vars == << targets, idx, results, table, pc, request, timer, reqElapsed, resp,
           total, bodyRead, queue, txOpen, rxOpen, pushed, dl_pc, held, rd_pc,
           len, recvSeq, pbLen, position, pbElapsed, renderResult, outcome >>

probeVars == << request, timer, reqElapsed, resp, total, bodyRead, queue,
                txOpen, rxOpen, pushed, dl_pc, held, rd_pc, len, recvSeq,
                pbLen, position, pbElapsed, renderResult >>

----------------------------------------------------------------------------
(* Bounds of the model *)

MaxTargets == 2
MaxChunks == 3
MaxChunkSize == 2
MaxContentLength == 3
MaxRows == 3

(* Program constants *)

ConnectTimeoutSecs == 10
TransferDeadlineSecs == 60
MillisPerSec == 1000
ChannelCapacity == 1

----------------------------------------------------------------------------
(* Inputs *)

Methods == {"GET", "HEAD"}
Statuses == {200, 204, 301, 404, 500}
ChunkSizes == 0..MaxChunkSize
ContentLengths == {<< >>} \cup {<<n>> : n \in 0..MaxContentLength}
ReqInstants == {0, 9999, 10000}
PbInstants == {0, 3, 60000, 60500, 61000}

None == << >>
Some(v) == <<v>>

RECURSIVE Sum(_)
Sum(s) == IF s = << >> THEN 0 ELSE Head(s) + Sum(Tail(s))

NoOutcome == [kind |-> "none", speed |-> None]
OkOutcome(s) == [kind |-> "Ok", speed |-> s]
ErrOutcome(k) == [kind |-> k, speed |-> None]

NoResp == [status |-> 0, contentLength |-> None]

----------------------------------------------------------------------------
(* Pure helpers *)

\* StatusCode::is_success: 200 <= code < 300
IsSuccess_Below400(status) == 200 <= status /\ status < 400

IsSuccess(status) == 200 <= status /\ status < 300

\* u64::checked_div: None when the divisor is 0
CheckedDiv_ZeroOnZero(a, b) == IF b = 0 THEN Some(0) ELSE Some(a \div b)

CheckedDiv(a, b) == IF b = 0 THEN None ELSE Some(a \div b)

\* Duration::as_secs: whole seconds, the sub-second part is dropped
AsSecs(ms) == ms \div MillisPerSec

\* the deadline test of the render loop
DeadlineExceeded(ms) == AsSecs(ms) > TransferDeadlineSecs

\* ProgressBar::finish leaves the bar complete: the position becomes the
\* length when the bar has one, and is left alone otherwise
FinishedPosition(length, pos) == IF length # None THEN length[1] ELSE pos

\* a bounded mpsc channel accepts a value only while it holds fewer than
\* its capacity
HasRoom_Two(q) == Len(q) < ChannelCapacity + 1

HasRoom(q) == Len(q) < ChannelCapacity

\* TestData::speed: the cell of the table
SpeedCell(speed) ==
  IF speed = None THEN [text |-> "N/A", size |-> None]
  ELSE [text |-> "size/s", size |-> speed]

\* Option<u64>::cmp: None is less than every Some, Some by value
OptLeq(a, b) == \/ a = None
                \/ a # None /\ b # None /\ a[1] <= b[1]

\* rows added in the order of results, without .rev()
Reverse_Identity(s) == s

Reverse(s) == [i \in 1..Len(s) |-> s[Len(s) + 1 - i]]

\* the orders sort_unstable may leave results in: any permutation that is
\* non-decreasing in speed
SortedOrders(rs) ==
  { [i \in 1..Len(rs) |-> rs[p[i]]] :
      p \in { q \in [1..Len(rs) -> 1..Len(rs)] :
                /\ \A i, j \in 1..Len(rs) : i # j => q[i] # q[j]
                /\ \A i, j \in 1..Len(rs) :
                     i < j => OptLeq(rs[q[i]].speed, rs[q[j]].speed) } }

\* what the transport can yield next for a response: hyper frames the body
\* by Content-Length when the header is there (no chunk runs past it and
\* the stream ends cleanly only once it is reached), and the response to a
\* HEAD request carries the header and no body
CanYieldChunk(method, cl, read, n) ==
  /\ method # "HEAD"
  /\ Len(read) < MaxChunks
  /\ IF cl = None THEN TRUE ELSE Sum(read) + n <= cl[1]

CanYieldEnd(method, cl, read) ==
  IF method = "HEAD" \/ cl = None THEN TRUE ELSE Sum(read) = cl[1]

----------------------------------------------------------------------------
(* Initial state: main has built the requests and is about to enter the loop *)

Init ==
  /\ targets \in UNION { [1..n -> Methods] : n \in 1..MaxTargets }
  /\ idx = 1
  /\ results = << >>
  /\ table = << >>
  /\ pc = "loop"
  /\ request = "idle"
  /\ timer = "idle"
  /\ reqElapsed = 0
  /\ resp = NoResp
  /\ total = None
  /\ bodyRead = << >>
  /\ queue = << >>
  /\ txOpen = FALSE
  /\ rxOpen = FALSE
  /\ pushed = 0
  /\ dl_pc = "idle"
  /\ held = 0
  /\ rd_pc = "idle"
  /\ len = 0
  /\ recvSeq = << >>
  /\ pbLen = None
  /\ position = 0
  /\ pbElapsed = 0
  /\ renderResult = NoOutcome
  /\ outcome = NoOutcome

----------------------------------------------------------------------------
(* main: the loop over the builders, and test_and_render up to the spawns *)

\* for builder in builders: test_and_render is called, the request is sent
\* under the 10 s timeout
StartProbe ==
  /\ pc = "loop"
  /\ idx <= Len(targets)
  /\ pc' = "connect"
  /\ request' = "pending"
  /\ timer' = "armed"
  /\ reqElapsed' = 0
  /\ resp' = NoResp
  /\ total' = None
  /\ bodyRead' = << >>
  /\ queue' = << >>
  /\ txOpen' = FALSE
  /\ rxOpen' = FALSE
  /\ pushed' = 0
  /\ dl_pc' = "idle"
  /\ held' = 0
  /\ rd_pc' = "idle"
  /\ len' = 0
  /\ recvSeq' = << >>
  /\ pbLen' = None
  /\ position' = 0
  /\ pbElapsed' = 0
  /\ renderResult' = NoOutcome
  /\ outcome' = NoOutcome
  /\ UNCHANGED << targets, idx, results, table >>

\* a timer that resolves before its 10 s have passed
ConnectTimerFires_Early ==
  /\ pc = "connect"
  /\ timer = "armed"
  /\ timer' = "fired"
  /\ request' = "abandoned"
  /\ outcome' = ErrOutcome("ConnectTimeout")
  /\ pc' = "returned"
  /\ UNCHANGED << targets, idx, results, table, reqElapsed, resp, total,
                  bodyRead, queue, txOpen, rxOpen, pushed, dl_pc, held, rd_pc,
                  len, recvSeq, pbLen, position, pbElapsed, renderResult >>

\* the timer of tokio::time::timeout resolves first: Err(Elapsed), the
\* request future is dropped, "Timed out for 10s"
ConnectTimerFires ==
  /\ pc = "connect"
  /\ timer = "armed"
  /\ reqElapsed >= ConnectTimeoutSecs * MillisPerSec
  /\ timer' = "fired"
  /\ request' = "abandoned"
  /\ outcome' = ErrOutcome("ConnectTimeout")
  /\ pc' = "returned"
  /\ UNCHANGED << targets, idx, results, table, reqElapsed, resp, total,
                  bodyRead, queue, txOpen, rxOpen, pushed, dl_pc, held, rd_pc,
                  len, recvSeq, pbLen, position, pbElapsed, renderResult >>

\* client.request resolves first with an error: "Failed to send request"
RequestFails ==
  /\ pc = "connect"
  /\ request = "pending"
  /\ request' = "failed"
  /\ timer' = "dropped"
  /\ outcome' = ErrOutcome("RequestError")
  /\ pc' = "returned"
  /\ UNCHANGED << targets, idx, results, table, reqElapsed, resp, total,
                  bodyRead, queue, txOpen, rxOpen, pushed, dl_pc, held, rd_pc,
                  len, recvSeq, pbLen, position, pbElapsed, renderResult >>

\* client.request resolves first with a response
RequestResponds ==
  /\ pc = "connect"
  /\ request = "pending"
  /\ \E st \in Statuses, cl \in ContentLengths :
       resp' = [status |-> st, contentLength |-> cl]
  /\ request' = "resolved"
  /\ timer' = "dropped"
  /\ pc' = "status"
  /\ UNCHANGED << targets, idx, results, table, reqElapsed, total, bodyRead,
                  queue, txOpen, rxOpen, pushed, dl_pc, held, rd_pc, len,
                  recvSeq, pbLen, position, pbElapsed, renderResult, outcome >>

\* the status is not a success: bail
StatusRejected ==
  /\ pc = "status"
  /\ ~IsSuccess(resp.status)
  /\ outcome' = ErrOutcome("BadStatus")
  /\ pc' = "returned"
  /\ UNCHANGED << targets, idx, results, table, probeVars >>

\* the status is a success: total is read from Content-Length, the channel
\* is made, the download and the render tasks are spawned
SpawnTasks ==
  /\ pc = "status"
  /\ IsSuccess(resp.status)
  /\ total' = resp.contentLength
  /\ queue' = << >>
  /\ txOpen' = TRUE
  /\ rxOpen' = TRUE
  /\ dl_pc' = "next"
  /\ rd_pc' = "spawned"
  /\ pc' = "join_download"
  /\ UNCHANGED << targets, idx, results, table, request, timer, reqElapsed,
                  resp, bodyRead, pushed, held, len, recvSeq, pbLen, position,
                  pbElapsed, renderResult, outcome >>

----------------------------------------------------------------------------
(* The download task (producer) *)

\* body.next() yields Some(Ok(chunk))
BodyYieldsChunk ==
  /\ dl_pc = "next"
  /\ \E n \in ChunkSizes :
       /\ CanYieldChunk(targets[idx], resp.contentLength, bodyRead, n)
       /\ held' = n
       /\ bodyRead' = Append(bodyRead, n)
  /\ dl_pc' = "send"
  /\ UNCHANGED << targets, idx, results, table, pc, request, timer, reqElapsed,
                  resp, total, queue, txOpen, rxOpen, pushed, rd_pc, len,
                  recvSeq, pbLen, position, pbElapsed, renderResult, outcome >>

\* body.next() yields None: the loop ends, the task returns and tx is dropped
BodyYieldsEnd ==
  /\ dl_pc = "next"
  /\ CanYieldEnd(targets[idx], resp.contentLength, bodyRead)
  /\ dl_pc' = "done"
  /\ txOpen' = FALSE
  /\ UNCHANGED << targets, idx, results, table, pc, request, timer, reqElapsed,
                  resp, total, bodyRead, queue, rxOpen, pushed, held, rd_pc,
                  len, recvSeq, pbLen, position, pbElapsed, renderResult,
                  outcome >>

\* body.next() yields Some(Err(_)): body.unwrap() panics, the task ends and
\* tx is dropped
BodyYieldsError ==
  /\ dl_pc = "next"
  /\ targets[idx] # "HEAD"
  /\ dl_pc' = "panicked_body"
  /\ txOpen' = FALSE
  /\ UNCHANGED << targets, idx, results, table, pc, request, timer, reqElapsed,
                  resp, total, bodyRead, queue, rxOpen, pushed, held, rd_pc,
                  len, recvSeq, pbLen, position, pbElapsed, renderResult,
                  outcome >>

\* a send that waits for room and never sees that the receiver is gone
ProducerSend_NeverSeesClose ==
  /\ dl_pc = "send"
  /\ rxOpen
  /\ HasRoom(queue)
  /\ queue' = Append(queue, held)
  /\ pushed' = pushed + 1
  /\ dl_pc' = "next"
  /\ txOpen' = txOpen
  /\ UNCHANGED << targets, idx, results, table, pc, request, timer, reqElapsed,
                  resp, total, bodyRead, rxOpen, held, rd_pc, len, recvSeq,
                  pbLen, position, pbElapsed, renderResult, outcome >>

\* tx.send(body.len()).await.unwrap(): Err once rx is dropped (the unwrap
\* panics), otherwise the value is pushed as soon as the channel has room
ProducerSend ==
  /\ dl_pc = "send"
  /\ IF ~rxOpen
     THEN /\ dl_pc' = "panicked_send"
          /\ txOpen' = FALSE
          /\ UNCHANGED << queue, pushed >>
     ELSE /\ HasRoom(queue)
          /\ queue' = Append(queue, held)
          /\ pushed' = pushed + 1
          /\ dl_pc' = "next"
          /\ txOpen' = txOpen
  /\ UNCHANGED << targets, idx, results, table, pc, request, timer, reqElapsed,
                  resp, total, bodyRead, rxOpen, held, rd_pc, len, recvSeq,
                  pbLen, position, pbElapsed, renderResult, outcome >>

----------------------------------------------------------------------------
(* The render task (consumer) *)

\* the task starts: the progress bar is created with length total
RenderStart ==
  /\ rd_pc = "spawned"
  /\ pbLen' = total
  /\ position' = 0
  /\ pbElapsed' = 0
  /\ rd_pc' = "recv"
  /\ UNCHANGED << targets, idx, results, table, pc, request, timer, reqElapsed,
                  resp, total, bodyRead, queue, txOpen, rxOpen, pushed, dl_pc,
                  held, len, recvSeq, renderResult, outcome >>

\* a recv that returns the front value and leaves it in the channel
RenderRecv_NoPop ==
  /\ rd_pc = "recv"
  /\ IF queue # << >>
     THEN /\ len' = Head(queue)
          /\ queue' = queue
          /\ recvSeq' = Append(recvSeq, Head(queue))
          /\ rd_pc' = "check"
     ELSE /\ ~txOpen
          /\ rd_pc' = "eos"
          /\ UNCHANGED << len, queue, recvSeq >>
  /\ UNCHANGED << targets, idx, results, table, pc, request, timer, reqElapsed,
                  resp, total, bodyRead, txOpen, rxOpen, pushed, dl_pc, held,
                  pbLen, position, pbElapsed, renderResult, outcome >>

\* a recv that waits for a value and never sees that tx is dropped
RenderRecv_NeverSeesClose ==
  /\ rd_pc = "recv"
  /\ queue # << >>
  /\ len' = Head(queue)
  /\ queue' = Tail(queue)
  /\ recvSeq' = Append(recvSeq, Head(queue))
  /\ rd_pc' = "check"
  /\ UNCHANGED << targets, idx, results, table, pc, request, timer, reqElapsed,
                  resp, total, bodyRead, txOpen, rxOpen, pushed, dl_pc, held,
                  pbLen, position, pbElapsed, renderResult, outcome >>

\* rx.recv().await: Some(front) when the channel holds a value, None when it
\* is empty and tx is dropped
RenderRecv ==
  /\ rd_pc = "recv"
  /\ IF queue # << >>
     THEN /\ len' = Head(queue)
          /\ queue' = Tail(queue)
          /\ recvSeq' = Append(recvSeq, Head(queue))
          /\ rd_pc' = "check"
     ELSE /\ ~txOpen
          /\ rd_pc' = "eos"
          /\ UNCHANGED << len, queue, recvSeq >>
  /\ UNCHANGED << targets, idx, results, table, pc, request, timer, reqElapsed,
                  resp, total, bodyRead, txOpen, rxOpen, pushed, dl_pc, held,
                  pbLen, position, pbElapsed, renderResult, outcome >>

\* a loop body that counts the chunk before it looks at the time
RenderCheck_CountsFirst ==
  /\ rd_pc = "check"
  /\ position' = position + len
  /\ IF DeadlineExceeded(pbElapsed)
     THEN /\ renderResult' = ErrOutcome("TransferTimeout")
          /\ rd_pc' = "bailed"
          /\ rxOpen' = FALSE
          /\ queue' = << >>
     ELSE /\ rd_pc' = "recv"
          /\ UNCHANGED << renderResult, rxOpen, queue >>
  /\ UNCHANGED << targets, idx, results, table, pc, request, timer, reqElapsed,
                  resp, total, bodyRead, txOpen, pushed, dl_pc, held, len,
                  recvSeq, pbLen, pbElapsed, outcome >>

\* the loop body: bail when pb.elapsed().as_secs() > 60 (the task ends, rx
\* is dropped and what the channel holds is discarded), else pb.inc(len)
RenderCheck ==
  /\ rd_pc = "check"
  /\ IF DeadlineExceeded(pbElapsed)
     THEN /\ renderResult' = ErrOutcome("TransferTimeout")
          /\ rd_pc' = "bailed"
          /\ rxOpen' = FALSE
          /\ queue' = << >>
          /\ UNCHANGED position
     ELSE /\ position' = position + len
          /\ rd_pc' = "recv"
          /\ UNCHANGED << renderResult, rxOpen, queue >>
  /\ UNCHANGED << targets, idx, results, table, pc, request, timer, reqElapsed,
                  resp, total, bodyRead, txOpen, pushed, dl_pc, held, len,
                  recvSeq, pbLen, pbElapsed, outcome >>

\* after the loop: update(0, true), pb.finish(), and the rate
\* (pb.position() * 1000).checked_div(pb.elapsed().as_millis())
RenderFinish ==
  /\ rd_pc = "eos"
  /\ position' = FinishedPosition(pbLen, position + 0)
  /\ renderResult' = OkOutcome(CheckedDiv(position' * MillisPerSec, pbElapsed))
  /\ rd_pc' = "ok"
  /\ rxOpen' = FALSE
  /\ UNCHANGED << targets, idx, results, table, pc, request, timer, reqElapsed,
                  resp, total, bodyRead, queue, txOpen, pushed, dl_pc, held,
                  len, recvSeq, pbLen, pbElapsed, outcome >>

----------------------------------------------------------------------------
(* test_and_render: the joins; main: collecting and printing *)

\* a join that drops the download task's result: a panic of the task is
\* not turned into an error
JoinDownload_IgnoresPanic ==
  /\ pc = "join_download"
  /\ dl_pc \in {"done", "panicked_body", "panicked_send"}
  /\ pc' = "join_render"
  /\ UNCHANGED outcome
  /\ UNCHANGED << targets, idx, results, table, probeVars >>

\* a join that does not wait for the download task to end
JoinDownload_NoWait ==
  /\ pc = "join_download"
  /\ IF dl_pc \in {"panicked_body", "panicked_send"}
     THEN /\ outcome' = ErrOutcome("DownloadError")
          /\ pc' = "returned"
     ELSE /\ pc' = "join_render"
          /\ UNCHANGED outcome
  /\ UNCHANGED << targets, idx, results, table, probeVars >>

\* download.await.context("Error when downloading")?
JoinDownload ==
  /\ pc = "join_download"
  /\ dl_pc \in {"done", "panicked_body", "panicked_send"}
  /\ IF dl_pc # "done"
     THEN /\ outcome' = ErrOutcome("DownloadError")
          /\ pc' = "returned"
     ELSE /\ pc' = "join_render"
          /\ UNCHANGED outcome
  /\ UNCHANGED << targets, idx, results, table, probeVars >>

\* render.await.context("Failed to wait render thread")??
JoinRender ==
  /\ pc = "join_render"
  /\ rd_pc \in {"ok", "bailed"}
  /\ outcome' = renderResult
  /\ pc' = "returned"
  /\ UNCHANGED << targets, idx, results, table, probeVars >>

\* a match whose Err arm prints the error and pushes nothing
Collect_DropsFailure ==
  /\ pc = "returned"
  /\ results' = IF outcome.kind = "Ok"
                THEN Append(results, [uri |-> idx, speed |-> outcome.speed])
                ELSE results
  /\ idx' = idx + 1
  /\ pc' = "loop"
  /\ UNCHANGED << targets, table, probeVars, outcome >>

\* the match in main: Ok(speed) pushes the speed, Err pushes None
Collect ==
  /\ pc = "returned"
  /\ results' = Append(results,
       [uri |-> idx,
        speed |-> IF outcome.kind = "Ok" THEN outcome.speed ELSE None])
  /\ idx' = idx + 1
  /\ pc' = "loop"
  /\ UNCHANGED << targets, table, probeVars, outcome >>

\* after the loop: results.sort_unstable(), then one row per result, last
\* first
PrintTable ==
  /\ pc = "loop"
  /\ idx > Len(targets)
  /\ \E sorted \in SortedOrders(results) :
       /\ results' = sorted
       /\ table' = [i \in 1..Len(sorted) |->
                      [uri |-> Reverse(sorted)[i].uri,
                       cell |-> SpeedCell(Reverse(sorted)[i].speed)]]
  /\ pc' = "done"
  /\ UNCHANGED << targets, idx, probeVars, outcome >>

----------------------------------------------------------------------------
(* Time *)

\* time passes while the request is raced against the timer
TickRequest ==
  /\ pc = "connect"
  /\ \E t \in ReqInstants : t > reqElapsed /\ reqElapsed' = t
  /\ UNCHANGED << targets, idx, results, table, pc, request, timer, resp,
                  total, bodyRead, queue, txOpen, rxOpen, pushed, dl_pc, held,
                  rd_pc, len, recvSeq, pbLen, position, pbElapsed,
                  renderResult, outcome >>

\* time passes while the progress bar runs. The render task reads the time at
\* the deadline check and at the rate, both reached from rx.recv().await
\* without a suspension point in between, so time advances while it awaits
\* rx.recv
TickProgress ==
  /\ rd_pc = "recv"
  /\ \E t \in PbInstants : t > pbElapsed /\ pbElapsed' = t
  /\ UNCHANGED << targets, idx, results, table, pc, request, timer, reqElapsed,
                  resp, total, bodyRead, queue, txOpen, rxOpen, pushed, dl_pc,
                  held, rd_pc, len, recvSeq, pbLen, position, renderResult,
                  outcome >>

----------------------------------------------------------------------------

Next ==
  \/ StartProbe
  \/ TickRequest
  \/ ConnectTimerFires
  \/ RequestFails
  \/ RequestResponds
  \/ StatusRejected
  \/ SpawnTasks
  \/ BodyYieldsChunk
  \/ BodyYieldsEnd
  \/ BodyYieldsError
  \/ ProducerSend
  \/ RenderStart
  \/ RenderRecv
  \/ RenderCheck
  \/ RenderFinish
  \/ TickProgress
  \/ JoinDownload
  \/ JoinRender
  \/ Collect
  \/ PrintTable

Spec == Init /\ [][Next]_vars

\* a run over a single target: the specification of the claims about one probe
InitProbe == Init /\ Len(targets) = 1

SpecProbe == InitProbe /\ [][Next]_vars

\* a run over two targets, one of each method, in either order: the
\* specification of the claims about the loop of main
InitRun == Init /\ Len(targets) = 2 /\ targets[1] # targets[2]

SpecRun == InitRun /\ [][Next]_vars

\* the end of main alone, entered with the loop over up to MaxRows targets
\* done and any mix of speeds and failures collected: the specification of
\* the claims about sorting and printing
SampleSpeeds == {None, Some(0), Some(333), Some(1000)}

InitTable ==
  /\ \E n \in 1..MaxRows :
       /\ targets = [i \in 1..n |-> "GET"]
       /\ idx = n + 1
       /\ results \in { r \in [1..n -> [uri : 1..n, speed : SampleSpeeds]] :
                          \A i \in 1..n : r[i].uri = i }
  /\ table = << >>
  /\ pc = "loop"
  /\ request = "idle"
  /\ timer = "idle"
  /\ reqElapsed = 0
  /\ resp = NoResp
  /\ total = None
  /\ bodyRead = << >>
  /\ queue = << >>
  /\ txOpen = FALSE
  /\ rxOpen = FALSE
  /\ pushed = 0
  /\ dl_pc = "idle"
  /\ held = 0
  /\ rd_pc = "idle"
  /\ len = 0
  /\ recvSeq = << >>
  /\ pbLen = None
  /\ position = 0
  /\ pbElapsed = 0
  /\ renderResult = NoOutcome
  /\ outcome = NoOutcome

SpecTable == InitTable /\ [][PrintTable]_vars

\* the scheduling of the tokio runtime: a sender waiting in tx.send is woken
\* when the channel gets room or is closed, and a finished task wakes the
\* JoinHandle awaiting it
FairSpecProbe ==
  SpecProbe /\ WF_vars(ProducerSend) /\ WF_vars(JoinDownload)

\* a step of one probe: of the request or its timer, of the transport, of
\* either task, or of the joins
ProbeStep ==
  \/ ConnectTimerFires
  \/ RequestFails
  \/ RequestResponds
  \/ StatusRejected
  \/ SpawnTasks
  \/ BodyYieldsChunk
  \/ BodyYieldsEnd
  \/ BodyYieldsError
  \/ ProducerSend
  \/ RenderStart
  \/ RenderRecv
  \/ RenderCheck
  \/ RenderFinish
  \/ JoinDownload
  \/ JoinRender

\* the transport goes on delivering (a response or an error, then a chunk,
\* the end of the body or an error) and the runtime goes on running the
\* tasks: a probe does not stand still while one of its steps can be taken
FairSpecTerm == SpecProbe /\ WF_vars(ProbeStep)

----------------------------------------------------------------------------
(* Properties *)

\* test_and_render has returned for the current target
ProbeReturned == outcome.kind # "none"

\* the entry of the current target is in results, in the place it was pushed
Recorded == pc = "loop" /\ idx > 1 /\ Len(results) = idx - 1

\* status 2xx, the body ended without an error, no timeout was signalled
CleanCompletion ==
  /\ ProbeReturned
  /\ resp.status \in 200..299
  /\ dl_pc = "done"
  /\ rd_pc = "ok"

IsPrefix(s, t) == Len(s) <= Len(t) /\ \A i \in 1..Len(s) : s[i] = t[i]

\* C1: on clean completion with elapsed time T > 0 the probe returns
\* Speed(floor(B * 1000 / T)), B the sum of the chunk sizes read from the body
C1_RateIsBytesOverTime ==
  (CleanCompletion /\ pbElapsed > 0) =>
    outcome = OkOutcome(Some((Sum(bodyRead) * 1000) \div pbElapsed))

\* C2: on clean completion with an elapsed time of 0 ms the probe returns Ok
\* with no speed, whatever the byte count; the target is recorded without a
\* speed and its table cell is N/A
C2_ZeroElapsedIsUnavailable ==
  (CleanCompletion /\ pbElapsed = 0) =>
    /\ outcome = [kind |-> "Ok", speed |-> << >>]
    /\ Recorded => results[idx - 1].speed = << >>
    /\ (pc = "done" /\ Len(targets) = 1) => table[1].cell.text = "N/A"

C2_Witness ==
  /\ CleanCompletion
  /\ pbElapsed = 0
  /\ Sum(bodyRead) > 0
  /\ pc = "done"

\* C3: once the deadline check of the render loop has fired, the probe
\* returns the TransferTimeout failure and nothing else (stated for the runs
\* in which the body itself yields no error, where no other failure competes)
C3_DeadlineCheckYieldsTransferTimeout ==
  (rd_pc = "bailed" /\ ProbeReturned /\ dl_pc # "panicked_body") =>
    outcome.kind = "TransferTimeout"

\* C4: a probe does not return a speed when the end of the stream was seen
\* more than 60 s after streaming started (stated for bodies of at least one
\* chunk)
C4_NoSpeedPastDeadline ==
  (ProbeReturned /\ outcome.kind = "Ok" /\ bodyRead # << >>) =>
    pbElapsed <= 60 * 1000

\* C5: the sends that completed minus the values the consumer took out of
\* the channel is at most 1, and the channel never holds more than one value
C5_QueueCapacity ==
  /\ pushed - Len(recvSeq) <= 1
  /\ Len(queue) <= 1

C5_Witness ==
  /\ rxOpen
  /\ Len(queue) = 1
  /\ dl_pc = "send"
  /\ pushed - Len(recvSeq) = 1

\* C6, as stated: at most one chunk read from the network has not yet been
\* accepted by the consumer
C6_OneChunkInFlight == Len(bodyRead) - Len(recvSeq) <= 1

\* C6, amended: at most two chunks read from the network have not yet been
\* accepted by the consumer (one in the channel, one held by the producer in
\* tx.send), and the producer awaits body.next() only while at most one is
C6_TwoChunksInFlight ==
  /\ Len(bodyRead) - Len(recvSeq) <= 2
  /\ dl_pc = "next" => Len(bodyRead) - Len(recvSeq) <= 1

C6_Witness ==
  /\ rxOpen
  /\ dl_pc = "send"
  /\ Len(queue) = 1
  /\ Len(bodyRead) - Len(recvSeq) = 2

\* C7: after a response whose status is not 2xx the probe returns BadStatus,
\* neither task was started, the body was never read, and the target is
\* recorded without a speed
C7_BadStatus ==
  (request = "resolved" /\ resp.status \notin 200..299 /\ pc # "status") =>
    /\ outcome.kind = "BadStatus"
    /\ outcome.speed = << >>
    /\ dl_pc = "idle"
    /\ rd_pc = "idle"
    /\ bodyRead = << >>
    /\ ~txOpen /\ ~rxOpen
    /\ Recorded => results[idx - 1].speed = << >>
    /\ (pc = "done" /\ Len(targets) = 1) => table[1].cell.text = "N/A"

C7_Witness ==
  /\ request = "resolved"
  /\ resp.status = 301
  /\ pc = "done"

\* C8: when the 10 s timer resolves first the probe returns ConnectTimeout,
\* the request is abandoned, no status is looked at, no task is started and
\* the target is recorded without a speed; when the request resolves first
\* (a response or a send error) the timer is dropped and the probe never
\* returns ConnectTimeout
C8_ConnectRace ==
  /\ timer = "fired" =>
       /\ reqElapsed >= 10 * 1000
       /\ outcome.kind = "ConnectTimeout"
       /\ request = "abandoned"
       /\ resp.status = 0
       /\ dl_pc = "idle" /\ rd_pc = "idle"
       /\ bodyRead = << >>
       /\ Recorded => results[idx - 1].speed = << >>
  /\ request \in {"resolved", "failed"} =>
       /\ timer = "dropped"
       /\ outcome.kind # "ConnectTimeout"
  /\ outcome.kind = "ConnectTimeout" => timer = "fired"

C8_Witness ==
  /\ timer = "fired"
  /\ Recorded
  /\ results[idx - 1].speed = << >>

C10_BlockedProducerEnds ==
  (rd_pc = "bailed" /\ dl_pc = "send") ~>
     (dl_pc \in {"done", "panicked_body", "panicked_send"} /\ ProbeReturned)

\* the consumer bailed out while one value was in the channel and the
\* producer was waiting in tx.send with the next
C10_Witness ==
  /\ rd_pc = "bailed"
  /\ dl_pc = "send"
  /\ Len(bodyRead) - Len(recvSeq) = 2

\* C11: whatever way a probe fails, main goes on: a returned probe is always
\* collected, failed or not, as one entry (without a speed when it failed),
\* the entries are pushed in target order, and when the loop has ended
\* results and the table hold exactly one entry per target
C11_OneEntryPerTarget ==
  /\ pc # "done" => /\ Len(results) = idx - 1
                    /\ \A i \in 1..Len(results) : results[i].uri = i
  /\ pc = "returned" => ENABLED Collect
  /\ (pc = "loop" /\ idx <= Len(targets)) => ENABLED StartProbe
  /\ (Recorded /\ outcome.kind # "Ok") => results[idx - 1].speed = << >>
  /\ (Recorded /\ outcome.kind = "Ok") => results[idx - 1].speed = outcome.speed
  /\ pc = "done" =>
       /\ Len(results) = Len(targets)
       /\ Len(table) = Len(targets)
       /\ \A u \in 1..Len(targets) :
            /\ Cardinality({i \in 1..Len(results) : results[i].uri = u}) = 1
            /\ Cardinality({i \in 1..Len(table) : table[i].uri = u}) = 1

\* the first target failed, the second ran and failed on the transfer
\* deadline, and both are recorded
C11_Witness ==
  /\ Recorded
  /\ idx = 3
  /\ results[1].speed = << >>
  /\ outcome.kind = "TransferTimeout"
  /\ results[2].speed = << >>

\* C12: once the body stream has yielded an I/O error the probe returns a
\* failure, never Ok, also when the render task reaches the end of the stream
\* and computes a rate; the target is recorded without a speed
C12_BodyErrorIsFailure ==
  (dl_pc = "panicked_body" /\ ProbeReturned) =>
    /\ outcome.kind = "DownloadError"
    /\ outcome.speed = << >>
    /\ Recorded => results[idx - 1].speed = << >>

C12_Witness ==
  /\ dl_pc = "panicked_body"
  /\ Recorded
  /\ rd_pc = "ok"
  /\ renderResult.kind = "Ok"
  /\ renderResult.speed # << >>
  /\ position > 0

\* a row without a speed is below (after) every row, a row with a speed is
\* below the rows of greater or equal speed
RowNotAbove(lower, upper) ==
  \/ lower.cell.size = << >>
  \/ /\ lower.cell.size # << >>
     /\ upper.cell.size # << >>
     /\ lower.cell.size[1] <= upper.cell.size[1]

\* C13: the table lists the rows in non-increasing order of speed, the N/A
\* rows below every row with a speed, and it has exactly one row for each
\* collected result, carrying that result's speed
C13_TableOrder ==
  /\ [](pc = "done" =>
         /\ \A i, j \in 1..Len(table) : i < j => RowNotAbove(table[j], table[i])
         /\ \A i \in 1..Len(table) :
              (table[i].cell.text = "N/A") <=> (table[i].cell.size = << >>))
  /\ [][(pc = "loop" /\ pc' = "done") =>
          /\ Len(table') = Len(results)
          /\ Len(results') = Len(results)
          /\ \A i \in 1..Len(results) :
               /\ Cardinality({j \in 1..Len(table') :
                                 table'[j].uri = results[i].uri}) = 1
               /\ \A j \in 1..Len(table') :
                    table'[j].uri = results[i].uri =>
                      table'[j].cell.size = results[i].speed]_vars

C13_Witness ==
  /\ pc = "done"
  /\ Len(table) = 3
  /\ table[1].cell.size = <<1000>>
  /\ table[2].cell.size = <<333>>
  /\ table[3].cell.text = "N/A"
  /\ table[3].uri = 1

\* C14: at every deadline check of the render loop the timeout is signalled
\* exactly when more than 60 000 ms have passed since the progress bar was
\* started, whatever the time spent on the request
C14_DeadlineAtMillisecond ==
  [][(rd_pc = "check" /\ rd_pc' \in {"recv", "bailed"}) =>
       ((rd_pc' = "bailed") <=> (pbElapsed > 60 * 1000))]_vars

\* the sizes received before the last one
AllButLast(s) == SubSeq(s, 1, Len(s) - 1)

\* C15: while the render loop runs the byte count is the sum of the chunks
\* accepted so far and changes only by the size of the chunk being accepted;
\* when the timeout is signalled the chunk whose receipt triggered the check
\* is not counted, and from then on the byte count does not change and no
\* further value is received
C15_ByteCountFrozen ==
  /\ [](/\ rd_pc = "recv" => position = Sum(recvSeq)
        /\ rd_pc = "check" => position = Sum(AllButLast(recvSeq))
        /\ rd_pc = "bailed" => position = Sum(AllButLast(recvSeq)))
  /\ [][/\ (rd_pc = "bailed" /\ rd_pc' = "bailed") =>
             (position' = position /\ recvSeq' = recvSeq)
        /\ (rd_pc \in {"recv", "check"} /\ rd_pc' \in {"recv", "check", "bailed"}) =>
             \/ position' = position
             \/ /\ rd_pc = "check"
                /\ rd_pc' = "recv"
                /\ position' = position + len]_vars

\* the timeout was signalled on the second chunk, after which the producer
\* read a third
C15_Witness ==
  /\ rd_pc = "bailed"
  /\ Len(recvSeq) = 2
  /\ recvSeq[1] > 0
  /\ recvSeq[2] > 0
  /\ position = recvSeq[1]
  /\ Len(bodyRead) = 3

\* C16: when test_and_render has returned from a probe whose tasks were
\* spawned, the download task and the render task have both ended
C16_BothTasksJoined ==
  (ProbeReturned /\ dl_pc # "idle") =>
    /\ dl_pc \in {"done", "panicked_body", "panicked_send"}
    /\ rd_pc \in {"ok", "bailed"}

\* the request and the download task of a probe are over: the request has
\* resolved, failed or been dropped with the timeout, and the download task
\* was never spawned or has ended
TransportReleased ==
  /\ request \in {"resolved", "failed", "abandoned"}
  /\ dl_pc \in {"idle", "done", "panicked_body", "panicked_send"}
  /\ request # "resolved" => dl_pc = "idle"

\* C17: from the return of test_and_render on, and so when main issues the
\* request of the next target, the request and the download task of the
\* target before are over, whatever the outcome
C17_StrictSequencing ==
  /\ ProbeReturned => TransportReleased
  /\ (pc = "loop" /\ idx > 1) => (ProbeReturned /\ TransportReleased)
  /\ pc \in {"connect", "status"} => (dl_pc = "idle" /\ rd_pc = "idle")

\* main is about to issue the request of the second target after a probe
\* whose consumer signalled the timeout and whose producer ended in tx.send
C17_Witness ==
  /\ pc = "loop"
  /\ idx = 2
  /\ idx <= Len(targets)
  /\ rd_pc = "bailed"
  /\ dl_pc = "panicked_send"

\* what the render task returns for the chunks it received and the time it
\* measured when the response has no Content-Length
OutcomeWithoutHint ==
  OkOutcome(CheckedDiv(FinishedPosition(None, Sum(recvSeq)) * MillisPerSec,
                       pbElapsed))

\* C18: on clean completion the outcome is the one the same status, chunks
\* and timing give without a Content-Length (stated for the outcome; the byte
\* count differs whenever the outcome does)
C18_TotalIsOnlyAHint == CleanCompletion => outcome = OutcomeWithoutHint

\* C19: while the download task awaits body.next() and the transport delivers
\* nothing, no step produces an outcome or lets main move on, whatever time
\* passes and also after the render task has signalled the timeout
C19_StalledProbeHangs ==
  /\ []((pc = "join_download" /\ dl_pc = "next") =>
          /\ outcome.kind = "none"
          /\ ~ENABLED JoinDownload
          /\ ~ENABLED JoinRender
          /\ ~ENABLED Collect
          /\ ~ENABLED StartProbe)
  /\ [][(pc = "join_download" /\ dl_pc = "next"
           /\ dl_pc' = "next" /\ bodyRead' = bodyRead) =>
          (pc' = "join_download" /\ outcome' = outcome /\ idx' = idx
             /\ results' = results)]_vars

\* the render task signalled the timeout at 61 s and the download task still
\* awaits body.next()
C19_Witness ==
  /\ pc = "join_download"
  /\ dl_pc = "next"
  /\ rd_pc = "bailed"
  /\ pbElapsed >= 61000
  /\ outcome.kind = "none"

\* C20: a probe whose steps keep being taken returns; it returns one outcome,
\* which does not change afterwards; and while test_and_render awaits its
\* tasks some step of the probe can always be taken
C20_ProbeTerminates ==
  /\ (pc = "connect") ~> ProbeReturned
  /\ [](pc \in {"connect", "status", "join_download", "join_render"} =>
          (~ProbeReturned /\ ENABLED ProbeStep))
  /\ [][ProbeReturned => (outcome' = outcome \/ pc' = "connect")]_vars

\* the producer waits in tx.send on the full channel while the consumer
\* awaits rx.recv
C20_Witness ==
  /\ pc = "join_download"
  /\ dl_pc = "send"
  /\ Len(queue) = 1
  /\ rxOpen
  /\ rd_pc = "recv"
  /\ Len(bodyRead) = 3

====
